---- MODULE Spec2Model ----
(***************************************************************************)
(* Model of pytest_smart_runner.mapper.TestMapper: the test-impact mapping *)
(* engine (find_test_files, extract_imports, get_module_path,              *)
(* find_affected_tests and their helpers), and of                          *)
(* pytest_smart_runner.analyzer.GitChangeAnalyzer.get_changed_files and    *)
(* pytest_smart_runner.runner.SmartTestRunner.run.                         *)
(*                                                                         *)
(* A string is the sequence of its characters, a path is the sequence of   *)
(* its parts as pathlib gives them (an absolute path starts with the part  *)
(* "/"), so that prefix/suffix tests, str.replace, str.split and '.'.join  *)
(* are computed on characters as the code computes them.                   *)
(***************************************************************************)
EXTENDS Integers, Sequences, FiniteSets, TLC

VARIABLES project_root, import_map, files, repo, call, ret, first

vars == <<project_root, import_map, files, repo, call, ret, first>>

-----------------------------------------------------------------------------
(* Bounds of the explored inputs.                                          *)

\* largest changed_files set passed to find_affected_tests
MaxChanged == 2

\* largest explicit test_files set passed to find_affected_tests
MaxTests == 2

-----------------------------------------------------------------------------
(* String literals of the source, and the names used by the inputs.        *)

N_src == <<"s", "r", "c">>
N_tests == <<"t", "e", "s", "t", "s">>
N_test == <<"t", "e", "s", "t">>
S_test_ == <<"t", "e", "s", "t", "_">>
S__test_py == <<"_", "t", "e", "s", "t", ".", "p", "y">>
S_dot_py == <<".", "p", "y">>
Dot == "."
Slash == <<"/">>

N_pkg == <<"p", "k", "g">>
N_spec == <<"s", "p", "e", "c">>
N_proj == <<"p", "r", "o", "j">>
N_other == <<"o", "t", "h", "e", "r">>
N_foo_py == <<"f", "o", "o", ".", "p", "y">>
N_foo == <<"f", "o", "o">>
N_test_foo_py == <<"t", "e", "s", "t", "_", "f", "o", "o", ".", "p", "y">>
N_foo_test_py == <<"f", "o", "o", "_", "t", "e", "s", "t", ".", "p", "y">>
N_test_math_py == <<"t", "e", "s", "t", "_", "m", "a", "t", "h", ".", "p", "y">>
N_test_bad_py == <<"t", "e", "s", "t", "_", "b", "a", "d", ".", "p", "y">>
N_test_gone_py == <<"t", "e", "s", "t", "_", "g", "o", "n", "e", ".", "p", "y">>
N_alpha_py == <<"a", "l", "p", "h", "a", ".", "p", "y">>
N_alpha == <<"a", "l", "p", "h", "a">>
N_bar_py == <<"b", "a", "r", ".", "p", "y">>
N_os == <<"o", "s">>
N_sub == <<"s", "u", "b">>
N_pkg_foo == <<"p", "k", "g", ".", "f", "o", "o">>
N_pkg_foo_py == <<"p", "k", "g", ".", "f", "o", "o", ".", "p", "y">>
N_test_foo_test_py == <<"t", "e", "s", "t", "_", "f", "o", "o", "_", "t", "e", "s", "t", ".", "p", "y">>
N_test_data_txt == <<"t", "e", "s", "t", "_", "d", "a", "t", "a", ".", "t", "x", "t">>
N_foo_pyi == <<"f", "o", "o", ".", "p", "y", "i">>
N_a_pyx_py == <<"a", ".", "p", "y", "x", ".", "p", "y">>
N_mypackage == <<"m", "y", "p", "a", "c", "k", "a", "g", "e">>
N_module_py == <<"m", "o", "d", "u", "l", "e", ".", "p", "y">>
N_mypackage_module == <<"m", "y", "p", "a", "c", "k", "a", "g", "e", ".", "m", "o", "d", "u", "l", "e">>

\* Python's None where a str is the other possibility
NoneVal == <<"<None>">>

\* test_dirs=None, where a list of names is the other possibility
NoTestDirs == <<NoneVal>>

\* test_files=None, where a set of paths is the other possibility
NoTestFiles == {<<NoneVal>>}

-----------------------------------------------------------------------------
(* str methods.                                                            *)

\* s.startswith(p)
StartsWith(s, p) == Len(s) >= Len(p) /\ SubSeq(s, 1, Len(p)) = p

\* s.endswith(p)
EndsWith(s, p) == Len(s) >= Len(p) /\ SubSeq(s, Len(s) - Len(p) + 1, Len(s)) = p

\* s.replace(old, ''): every non-overlapping occurrence, left to right
RECURSIVE StrRemoveAll(_, _)
StrRemoveAll(s, old) ==
    IF Len(s) < Len(old) \/ Len(old) = 0 THEN s
    ELSE IF SubSeq(s, 1, Len(old)) = old
         THEN StrRemoveAll(SubSeq(s, Len(old) + 1, Len(s)), old)
         ELSE <<Head(s)>> \o StrRemoveAll(Tail(s), old)

\* s.split('.')[0]
RECURSIVE SplitFirst(_)
SplitFirst(s) ==
    IF s = <<>> \/ Head(s) = Dot THEN <<>>
    ELSE <<Head(s)>> \o SplitFirst(Tail(s))

\* '.'.join(parts)
RECURSIVE JoinDot(_)
JoinDot(parts) ==
    IF parts = <<>> THEN <<>>
    ELSE IF Len(parts) = 1 THEN parts[1]
         ELSE parts[1] \o <<Dot>> \o JoinDot(Tail(parts))

\* s.rfind('.') counted from 1; 0 when s holds no '.'
RECURSIVE RFindDot(_)
RFindDot(s) ==
    IF s = <<>> THEN 0
    ELSE IF s[Len(s)] = Dot THEN Len(s)
         ELSE RFindDot(SubSeq(s, 1, Len(s) - 1))

-----------------------------------------------------------------------------
(* pathlib.PurePath on POSIX.                                              *)

IsAbsolute(p) == Len(p) > 0 /\ p[1] = Slash

\* PurePath.name: the last part, '' for the root and for Path('.')
PathName(p) ==
    IF p = <<>> \/ p = <<Slash>> THEN <<>> ELSE p[Len(p)]

\* PurePath.stem: the name without its last suffix; a leading or a trailing
\* dot starts no suffix
PathStem(p) ==
    LET name == PathName(p)
        i == RFindDot(name)
    IN IF 1 < i /\ i < Len(name) THEN SubSeq(name, 1, i - 1) ELSE name

\* PurePath.suffix
PathSuffix(p) ==
    LET name == PathName(p)
        i == RFindDot(name)
    IN IF 1 < i /\ i < Len(name) THEN SubSeq(name, i, Len(name)) ELSE <<>>

\* whether p.relative_to(other) succeeds (it raises ValueError otherwise): the
\* comparison is lexical, on the parts, anchors included
IsRelativeTo(p, other) ==
    /\ IsAbsolute(p) = IsAbsolute(other)
    /\ Len(p) >= Len(other)
    /\ SubSeq(p, 1, Len(other)) = other

\* the parts of p.relative_to(other)
RelativeTo(p, other) == SubSeq(p, Len(other) + 1, Len(p))

\* base / name
JoinPath(base, rest) == base \o rest

-----------------------------------------------------------------------------
(* The filesystem: files maps the absolute path of every regular file to   *)
(* its content; relative paths are opened relative to the working          *)
(* directory, which is the project directory.                              *)

Cwd == <<Slash, N_proj>>

AbsPath(p) == IF IsAbsolute(p) THEN p ELSE Cwd \o p

IsFile(p) == AbsPath(p) \in DOMAIN files

\* Path.exists(): a file, or a directory holding one
PathExists(p) ==
    \E f \in DOMAIN files :
        Len(f) >= Len(AbsPath(p)) /\ SubSeq(f, 1, Len(AbsPath(p))) = AbsPath(p)

\* statements of a parsed file: an import statement, or a def with a body
\* names are the alias.name of an import statement and asnames the names they
\* are bound to; module and level are those of a from-import (level counts
\* its leading dots, module is empty when the statement names none)
Stmt(type, names, module, level, body) ==
    [type |-> type, names |-> names, asnames |-> names, module |-> module,
     level |-> level, body |-> body]

ImportStmt(names) == Stmt("Import", names, <<>>, 0, <<>>)
ImportAsStmt(names, asnames) == [ImportStmt(names) EXCEPT !.asnames = asnames]
ImportFromStmt(module, level) == Stmt("ImportFrom", <<>>, module, level, <<>>)
FunctionDef(body) == Stmt("FunctionDef", <<>>, <<>>, 0, body)

Source(body) == [kind |-> "source", body |-> body]
SyntaxErrorFile == [kind |-> "syntax_error", body |-> <<>>]
UndecodableFile == [kind |-> "undecodable", body |-> <<>>]

-----------------------------------------------------------------------------
(* Results of a call: a returned value, or an exception leaving the call.  *)

Return(v) == [kind |-> "return", value |-> v]
Raise(exc) == [kind |-> "raise", value |-> exc]
Pending == [kind |-> "pending", value |-> <<>>]

-----------------------------------------------------------------------------
(* TestMapper.extract_imports                                              *)

\* the concatenation of the bodies of a sequence of statements
RECURSIVE ChildNodes(_)
ChildNodes(stmts) ==
    IF stmts = <<>> THEN <<>>
    ELSE Head(stmts).body \o ChildNodes(Tail(stmts))

\* tree.body: the statements at the top level of the file alone
AstWalk_top_level(stmts) == stmts

\* ast.walk(tree): every node of the tree, the nested ones included
RECURSIVE AstWalk(_)
AstWalk(stmts) ==
    IF stmts = <<>> THEN <<>>
    ELSE stmts \o AstWalk(ChildNodes(stmts))

\* what one node adds to imports
NodeImports(node) ==
    IF node.type = "Import"
    THEN {SplitFirst(node.names[i]) : i \in DOMAIN node.names}
    ELSE IF node.type = "ImportFrom" /\ node.module # <<>>
         THEN {SplitFirst(node.module)}
         ELSE {}

\* open() and ast.parse(): the tree, or the exception raised
ParseFile(file_path) ==
    IF ~IsFile(file_path) THEN Raise("FileNotFoundError")
    ELSE LET content == files[AbsPath(file_path)]
         IN CASE content.kind = "syntax_error" -> Raise("SyntaxError")
              [] content.kind = "undecodable" -> Raise("UnicodeDecodeError")
              [] OTHER -> Return(content.body)

\* an except clause that leaves SyntaxError out
CaughtByExtractImports_decode_only == {"UnicodeDecodeError"}

\* which exceptions the except clause catches
CaughtByExtractImports == {"SyntaxError", "UnicodeDecodeError"}

extract_imports(file_path) ==
    LET parsed == ParseFile(file_path)
    IN IF parsed.kind = "raise"
       THEN IF parsed.value \in CaughtByExtractImports
            THEN Return({})
            ELSE parsed
       ELSE LET nodes == AstWalk(parsed.value)
            IN Return(UNION {NodeImports(nodes[i]) : i \in DOMAIN nodes})

-----------------------------------------------------------------------------
(* TestMapper.get_module_path                                              *)

\* every 'src' part removed, not the leading one alone
StripSrc_everywhere(parts) == SelectSeq(parts, LAMBDA part : part # N_src)

\* the parts left after the relative path lost a leading 'src'
StripSrc(parts) ==
    IF parts # <<>> /\ parts[1] = N_src THEN Tail(parts) ELSE parts

\* the module path made of the file name alone
get_module_path_name_only(changed_file) ==
    IF ~IsRelativeTo(changed_file, project_root) THEN NoneVal
    ELSE LET parts == StripSrc(RelativeTo(changed_file, project_root))
         IN IF parts # <<>>
            THEN StrRemoveAll(parts[Len(parts)], S_dot_py)
            ELSE NoneVal

get_module_path(changed_file) ==
    IF ~IsRelativeTo(changed_file, project_root) THEN NoneVal
    ELSE LET parts == StripSrc(RelativeTo(changed_file, project_root))
         IN IF parts # <<>>
            THEN JoinDot([parts EXCEPT ![Len(parts)] = StrRemoveAll(@, S_dot_py)])
            ELSE NoneVal

-----------------------------------------------------------------------------
(* TestMapper._is_test_file and TestMapper._get_test_candidates            *)

is_test_file(file_path) ==
    \/ StartsWith(PathName(file_path), S_test_)
    \/ EndsWith(PathName(file_path), S__test_py)

\* f"test_{filename}.py", f"{filename}_test.py"
TestPatterns(filename) ==
    << S_test_ \o filename \o S_dot_py,
       filename \o SubSeq(S__test_py, 1, 5) \o S_dot_py >>

\* the directories _get_test_candidates looks in
CandidateDirs == <<N_tests, N_test>>

\* the candidates one pattern gives in one test directory
PatternCandidates(test_path, source_file, pattern) ==
    <<JoinPath(test_path, <<pattern>>)>> \o
    ( IF IsRelativeTo(source_file, project_root)
      THEN LET parts == StripSrc(RelativeTo(source_file, project_root))
           IN IF Len(parts) > 1
              THEN <<JoinPath(JoinPath(test_path, SubSeq(parts, 1, Len(parts) - 1)),
                              <<pattern>>)>>
              ELSE <<>>
      ELSE <<>> )

\* the candidates of one test directory, none when it does not exist
DirCandidates(test_dir, source_file) ==
    LET test_path == JoinPath(project_root, <<test_dir>>)
        patterns == TestPatterns(PathStem(source_file))
    IN IF PathExists(test_path)
       THEN PatternCandidates(test_path, source_file, patterns[1])
            \o PatternCandidates(test_path, source_file, patterns[2])
       ELSE <<>>

get_test_candidates(source_file) ==
    DirCandidates(CandidateDirs[1], source_file)
    \o DirCandidates(CandidateDirs[2], source_file)

-----------------------------------------------------------------------------
(* TestMapper.find_test_files                                              *)

DefaultTestDirs == <<N_tests, N_test>>

\* fnmatch of a name against 'test_*.py'
MatchesTestPrefixGlob(name) ==
    /\ Len(name) >= Len(S_test_) + Len(S_dot_py)
    /\ StartsWith(name, S_test_)
    /\ EndsWith(name, S_dot_py)

\* fnmatch of a name against '*_test.py'
MatchesTestSuffixGlob(name) == EndsWith(name, S__test_py)

\* test_path.glob(pattern): the matching files directly inside test_path
RGlob_top_level_only(test_path, prefix_glob) ==
    LET base == AbsPath(test_path)
    IN { JoinPath(test_path, <<PathName(f)>>) :
           f \in { g \in DOMAIN files :
                     /\ Len(g) = Len(base) + 1
                     /\ SubSeq(g, 1, Len(base)) = base
                     /\ IF prefix_glob THEN MatchesTestPrefixGlob(PathName(g))
                                       ELSE MatchesTestSuffixGlob(PathName(g)) } }

\* test_path.rglob(pattern): the files at any depth below test_path whose name
\* matches, each as test_path joined with its path below it
RGlob(test_path, prefix_glob) ==
    LET base == AbsPath(test_path)
    IN { JoinPath(test_path, SubSeq(f, Len(base) + 1, Len(f))) :
           f \in { g \in DOMAIN files :
                     /\ Len(g) > Len(base)
                     /\ SubSeq(g, 1, Len(base)) = base
                     /\ IF prefix_glob THEN MatchesTestPrefixGlob(PathName(g))
                                       ELSE MatchesTestSuffixGlob(PathName(g)) } }

RECURSIVE FindTestFilesLoop(_, _)
FindTestFilesLoop(test_dirs, test_files) ==
    IF test_dirs = <<>> THEN test_files
    ELSE LET test_path == JoinPath(project_root, <<Head(test_dirs)>>)
         IN FindTestFilesLoop(
                Tail(test_dirs),
                IF PathExists(test_path)
                THEN test_files \cup RGlob(test_path, TRUE) \cup RGlob(test_path, FALSE)
                ELSE test_files)

find_test_files(test_dirs) ==
    FindTestFilesLoop(IF test_dirs = NoTestDirs THEN DefaultTestDirs ELSE test_dirs, {})

-----------------------------------------------------------------------------
(* TestMapper.find_affected_tests                                          *)

\* strategy 1 keeping a changed test only when discovery finds it
RECURSIVE Strategy1Loop_discovered_only(_, _)
Strategy1Loop_discovered_only(remaining, affected_tests) ==
    IF remaining = {} THEN affected_tests
    ELSE LET changed_file == CHOOSE f \in remaining : TRUE
         IN Strategy1Loop_discovered_only(
                remaining \ {changed_file},
                IF is_test_file(changed_file)
                     /\ changed_file \in FindTestFilesLoop(DefaultTestDirs, {})
                THEN affected_tests \cup {changed_file}
                ELSE affected_tests)

\* Strategy 1: direct test file changes
RECURSIVE Strategy1Loop(_, _)
Strategy1Loop(remaining, affected_tests) ==
    IF remaining = {} THEN affected_tests
    ELSE LET changed_file == CHOOSE f \in remaining : TRUE
         IN Strategy1Loop(
                remaining \ {changed_file},
                IF is_test_file(changed_file)
                THEN affected_tests \cup {changed_file}
                ELSE affected_tests)

\* the inner loop of strategy 2 without its membership test
RECURSIVE CandidateLoop_unfiltered(_, _, _)
CandidateLoop_unfiltered(test_candidates, test_files, affected_tests) ==
    IF test_candidates = <<>> THEN affected_tests
    ELSE CandidateLoop_unfiltered(
             Tail(test_candidates), test_files,
             affected_tests \cup {Head(test_candidates)})

\* the inner loop of strategy 2 over the candidates of one changed file
RECURSIVE CandidateLoop(_, _, _)
CandidateLoop(test_candidates, test_files, affected_tests) ==
    IF test_candidates = <<>> THEN affected_tests
    ELSE CandidateLoop(
             Tail(test_candidates), test_files,
             IF Head(test_candidates) \in test_files
             THEN affected_tests \cup {Head(test_candidates)}
             ELSE affected_tests)

\* strategy 2 assigning the matches of a changed file to affected_tests
\* instead of adding them
RECURSIVE Strategy2Loop_overwrite(_, _, _)
Strategy2Loop_overwrite(remaining, test_files, affected_tests) ==
    IF remaining = {} THEN affected_tests
    ELSE LET changed_file == CHOOSE f \in remaining : TRUE
         IN Strategy2Loop_overwrite(
                remaining \ {changed_file}, test_files,
                IF ~is_test_file(changed_file)
                THEN CandidateLoop(get_test_candidates(changed_file), test_files, {})
                ELSE affected_tests)

\* Strategy 2: naming convention mapping
RECURSIVE Strategy2Loop(_, _, _)
Strategy2Loop(remaining, test_files, affected_tests) ==
    IF remaining = {} THEN affected_tests
    ELSE LET changed_file == CHOOSE f \in remaining : TRUE
         IN Strategy2Loop(
                remaining \ {changed_file}, test_files,
                IF ~is_test_file(changed_file)
                THEN CandidateLoop(get_test_candidates(changed_file),
                                   test_files, affected_tests)
                ELSE affected_tests)

\* the module paths of the changed files that have one
RECURSIVE ChangedModulesLoop(_, _)
ChangedModulesLoop(remaining, changed_modules) ==
    IF remaining = {} THEN changed_modules
    ELSE LET changed_file == CHOOSE f \in remaining : TRUE
             module_path == get_module_path(changed_file)
         IN ChangedModulesLoop(
                remaining \ {changed_file},
                IF module_path # NoneVal /\ module_path # <<>>
                THEN changed_modules \cup {module_path}
                ELSE changed_modules)

\* the inner loop of strategy 3 comparing the whole dotted module path
ImportsChangedModule_dotted(imports, changed_modules) ==
    \E changed_module \in changed_modules : changed_module \in imports

\* whether the inner loop of strategy 3 reaches its add-and-break
ImportsChangedModule(imports, changed_modules) ==
    \E changed_module \in changed_modules : SplitFirst(changed_module) \in imports

\* Strategy 3 leaving its loop at the first test file it adds
RECURSIVE Strategy3Loop_break_on_match(_, _, _)
Strategy3Loop_break_on_match(order, changed_modules, affected_tests) ==
    IF order = <<>> THEN Return(affected_tests)
    ELSE LET test_file == Head(order)
             imports == extract_imports(test_file)
         IN IF imports.kind = "raise" THEN imports
            ELSE IF ImportsChangedModule(imports.value, changed_modules)
                 THEN Return(affected_tests \cup {test_file})
                 ELSE Strategy3Loop_break_on_match(
                          Tail(order), changed_modules, affected_tests)

\* Strategy 3: import analysis, the test files visited in the order given; an
\* exception of extract_imports leaves the loop and the call
RECURSIVE Strategy3Loop(_, _, _)
Strategy3Loop(order, changed_modules, affected_tests) ==
    IF order = <<>> THEN Return(affected_tests)
    ELSE LET test_file == Head(order)
             imports == extract_imports(test_file)
         IN IF imports.kind = "raise" THEN imports
            ELSE Strategy3Loop(
                     Tail(order), changed_modules,
                     IF ImportsChangedModule(imports.value, changed_modules)
                     THEN affected_tests \cup {test_file}
                     ELSE affected_tests)

\* the test files the call works on
EffectiveTestFiles(test_files) ==
    IF test_files = NoTestFiles THEN find_test_files(NoTestDirs) ELSE test_files

\* order is the order in which Python iterates over the set of test files
find_affected_tests(changed_files, test_files, order) ==
    LET tests == EffectiveTestFiles(test_files)
        after1 == Strategy1Loop(changed_files, {})
        after2 == Strategy2Loop(changed_files, tests, after1)
        changed_modules == ChangedModulesLoop(changed_files, {})
    IN Strategy3Loop(order, changed_modules, after2)

-----------------------------------------------------------------------------
(* GitChangeAnalyzer.get_changed_files                                     *)
(*                                                                         *)
(* repo is the repository as GitPython shows it to the call: head tells    *)
(* whether base resolves (it does not in a repository without a commit),   *)
(* staged is index.diff(base), unstaged is index.diff(None), untracked is  *)
(* untracked_files and index holds the paths of the index entries. A diff  *)
(* is its a_path and b_path, paths relative to the repository.             *)

\* a path a diff does not have
NoPath == <<>>

Diff(a_path, b_path) == [a_path |-> a_path, b_path |-> b_path]

\* the paths a loop over diffs adds: a_path and, when with_b_path, b_path
DiffPaths(diffs, with_b_path) ==
    { d.a_path : d \in { e \in diffs : e.a_path # NoPath } }
    \cup ( IF with_b_path
           THEN { d.b_path : d \in { e \in diffs : e.b_path # NoPath } }
           ELSE {} )

\* the staged changes: index.diff(base), and index.diff(None) with a_path alone
\* when base raises BadName
StagedChanges ==
    IF repo.head THEN DiffPaths(repo.staged, TRUE)
    ELSE DiffPaths(repo.unstaged, FALSE)

\* no filter at all
PythonFiles_unfiltered(changed_files) == changed_files

\* {f for f in changed_files if f.suffix == '.py'}
PythonFiles(changed_files) ==
    { f \in changed_files : PathSuffix(f) = S_dot_py }

get_changed_files(include_untracked, include_staged, include_unstaged) ==
    PythonFiles(
        (IF include_staged THEN StagedChanges ELSE {})
        \cup (IF include_unstaged THEN DiffPaths(repo.unstaged, TRUE) ELSE {})
        \cup (IF include_untracked THEN repo.untracked ELSE {}))

-----------------------------------------------------------------------------
(* SmartTestRunner.run: the answer is the set of test files the run selects *)
(* (it prints them and hands them to pytest), empty when it returns early.  *)
(* order is the order in which find_affected_tests iterates over the test   *)
(* files it discovers. test_dirs is a parameter the body never reads.       *)

run(include_untracked, include_staged, include_unstaged, test_dirs, order) ==
    LET changed_files ==
            get_changed_files(include_untracked, include_staged, include_unstaged)
    IN IF changed_files = {} THEN Return({})
       ELSE find_affected_tests(changed_files, NoTestFiles, order)

-----------------------------------------------------------------------------
(* The project on disk and the inputs explored.                            *)

RootAbs == Cwd
RootRel == <<>>

F_src_pkg_foo == <<Slash, N_proj, N_src, N_pkg, N_foo_py>>
F_src_pkg_bar == <<Slash, N_proj, N_src, N_pkg, N_bar_py>>
F_alpha == <<Slash, N_proj, N_alpha_py>>
F_tests_test_foo == <<Slash, N_proj, N_tests, N_test_foo_py>>
F_tests_pkg_test_foo == <<Slash, N_proj, N_tests, N_pkg, N_test_foo_py>>
F_tests_test_math == <<Slash, N_proj, N_tests, N_test_math_py>>
F_tests_test_bad == <<Slash, N_proj, N_tests, N_test_bad_py>>
F_tests_test_gone == <<Slash, N_proj, N_tests, N_test_gone_py>>
F_test_foo_test == <<Slash, N_proj, N_test, N_foo_test_py>>
F_tests_test_data == <<Slash, N_proj, N_tests, N_test_data_txt>>
F_spec_test_foo_test == <<Slash, N_proj, N_spec, N_test_foo_test_py>>

\* the same files named relative to the working directory
Rel(p) == SubSeq(p, Len(Cwd) + 1, Len(p))

\* the files every snapshot holds, but for the content of test_bad.py
BaseFiles(bad) ==
    (F_src_pkg_foo :> Source(<<>>)) @@
    (F_src_pkg_bar :> Source(<<>>)) @@
    (F_alpha :> Source(<<ImportStmt(<<N_pkg_foo>>),
                         ImportAsStmt(<<N_os>>, <<N_foo>>),
                         ImportFromStmt(N_sub, 1)>>)) @@
    (F_tests_test_foo :>
        Source(<<ImportStmt(<<N_os>>), FunctionDef(<<ImportStmt(<<N_alpha>>)>>)>>)) @@
    (F_tests_pkg_test_foo :> Source(<<ImportFromStmt(<<>>, 1)>>)) @@
    (F_tests_test_math :> Source(<<ImportStmt(<<N_os>>), ImportFromStmt(N_pkg, 0)>>)) @@
    (F_tests_test_bad :> bad) @@
    (F_tests_test_data :> UndecodableFile) @@
    (F_spec_test_foo_test :> Source(<<ImportFromStmt(N_pkg, 0)>>))

\* the directory test/, with a test that imports alpha alone
TestDirFiles == (F_test_foo_test :> Source(<<ImportStmt(<<N_alpha>>)>>))

\* test_bad.py holds a syntax error or undecodable bytes; the directory
\* test/ exists or not
Snapshots ==
    { BaseFiles(SyntaxErrorFile), BaseFiles(UndecodableFile),
      BaseFiles(SyntaxErrorFile) @@ TestDirFiles }

ChangedUniverse ==
    { F_src_pkg_foo, Rel(F_src_pkg_foo), F_src_pkg_bar, F_tests_test_foo, F_alpha }

\* test/foo_test.py is missing from the snapshots without the directory test/
TestUniverse ==
    { F_tests_test_foo, F_tests_pkg_test_foo, F_tests_test_math, F_tests_test_bad,
      F_test_foo_test }

PathUniverse ==
    ChangedUniverse \cup
    { <<Slash, N_other, N_bar_py>>,
      <<Slash, N_proj>>, <<Slash, N_proj, N_src>>, <<N_src>>,
      <<Slash, N_proj, N_pkg, N_foo_py>>, <<N_pkg, N_foo_py>>,
      <<Slash, N_proj, N_pkg_foo_py>>,
      <<Slash, N_proj, N_pkg, N_a_pyx_py>>, <<N_pkg, N_foo_pyi>>,
      <<Slash, N_proj, N_src, N_src, N_foo_py>>,
      <<Slash, N_proj, N_pkg, N_src, N_foo_py>>,
      <<Slash, N_proj, N_src, N_mypackage, N_module_py>>,
      <<Slash, N_proj, N_mypackage, N_module_py>>,
      <<N_src, N_mypackage, N_module_py>>,
      <<N_mypackage, N_module_py>> }

ImportFileUniverse ==
    TestUniverse \cup {F_alpha, F_tests_test_gone, Rel(F_tests_test_bad),
                       Rel(F_tests_test_math)}

TestDirsUniverse ==
    { NoTestDirs, <<N_tests>>, <<N_test>>, <<N_test, N_tests>>, <<N_spec>>,
      <<N_tests, N_tests>>, <<N_other>>, <<N_spec, N_other, N_tests>>, <<>> }

SubsetsUpTo(S, n) == { T \in SUBSET S : Cardinality(T) <= n }

\* the orders in which a set can be iterated over
Orders(S) ==
    { o \in [1..Cardinality(S) -> S] :
        \A i, j \in 1..Cardinality(S) : o[i] = o[j] => i = j }

\* the defaults of include_untracked, include_staged and include_unstaged
DefaultOpts ==
    [include_untracked |-> TRUE, include_staged |-> TRUE, include_unstaged |-> TRUE]

Call(op, changed, tests, order, path, dirs) ==
    [op |-> op, changed |-> changed, tests |-> tests, order |-> order,
     path |-> path, dirs |-> dirs, opts |-> DefaultOpts]

Repo(head, staged, unstaged, untracked) ==
    [head |-> head, staged |-> staged, unstaged |-> unstaged,
     untracked |-> untracked,
     index |-> DiffPaths(staged, TRUE) \cup DiffPaths(unstaged, TRUE)]

\* a repository with a commit and nothing changed
CleanRepo == Repo(TRUE, {}, {}, {})

\* staged: foo.py modified, bar.py renamed to foo.pyi
StagedUniverse ==
    { {}, { Diff(Rel(F_src_pkg_foo), Rel(F_src_pkg_foo)),
            Diff(Rel(F_src_pkg_bar), <<N_src, N_pkg, N_foo_pyi>>) } }

\* unstaged: alpha.py modified; or test_foo.py deleted and a text file modified
UnstagedUniverse ==
    { {}, { Diff(Rel(F_alpha), Rel(F_alpha)) },
      { Diff(Rel(F_tests_test_foo), NoPath),
        Diff(Rel(F_tests_test_data), Rel(F_tests_test_data)) } }

\* untracked: a new test and a new stub file
UntrackedUniverse ==
    { {}, { Rel(F_tests_test_math), <<N_pkg, N_foo_pyi>> } }

\* the repositories explored; one without a commit has no diff against base
RepoUniverse ==
    { Repo(TRUE, a[1], a[2], a[3]) :
        a \in StagedUniverse \X UnstagedUniverse \X UntrackedUniverse }
    \cup { Repo(FALSE, {}, a[1], a[2]) : a \in UnstagedUniverse \X UntrackedUniverse }

\* the repositories of the runs: nothing changed, foo.py staged, alpha.py
\* modified
RunRepoUniverse ==
    { CleanRepo,
      Repo(TRUE, {Diff(Rel(F_src_pkg_foo), Rel(F_src_pkg_foo))}, {}, {}),
      Repo(TRUE, {}, {Diff(Rel(F_alpha), Rel(F_alpha))}, {}) }

\* the values of --test-dir
RunTestDirsUniverse == { NoTestDirs, <<N_spec>>, <<N_spec, N_tests>> }

GetChangedFilesCalls ==
    { [Call("get_changed_files", {}, {}, <<>>, <<>>, <<>>) EXCEPT !.opts = opts] :
        opts \in [include_untracked : BOOLEAN, include_staged : BOOLEAN,
                  include_unstaged : BOOLEAN] }

-----------------------------------------------------------------------------
(* The state machine: a mapper is constructed on a project and one of its  *)
(* methods is called with arguments; the action of the method runs it.     *)
(* After find_affected_tests has answered, the mapper is called again: any *)
(* number of calls of its other methods, and find_affected_tests with the  *)
(* arguments of the first call.                                            *)

FindAffectedCalls ==
    { Call("find_affected_tests", a[1], a[2][1], a[2][2], <<>>, <<>>) :
        a \in SubsetsUpTo(ChangedUniverse, MaxChanged) \X
              UNION { {<<tests, order>> : order \in Orders(EffectiveTestFiles(tests))} :
                      tests \in SubsetsUpTo(TestUniverse, MaxTests) \cup {NoTestFiles} } }

\* no call of find_affected_tests has answered yet
NoFirst == [call |-> Call("none", {}, {}, <<>>, <<>>, <<>>), ret |-> Pending]

\* the calls of the other methods made between two calls of find_affected_tests
OtherCalls ==
    { Call("find_test_files", {}, {}, <<>>, <<>>, NoTestDirs),
      Call("extract_imports", {}, {}, <<>>, F_tests_test_math, <<>>),
      Call("get_module_path", {}, {}, <<>>, F_src_pkg_foo, <<>>) }

Reverse(seq) == [i \in 1..Len(seq) |-> seq[Len(seq) + 1 - i]]

\* the same arguments again; this time Python iterates over the set of test
\* files in the opposite order
SameCall(c) == [c EXCEPT !.order = Reverse(@)]

Init ==
    /\ project_root \in {RootAbs, RootRel}
    /\ import_map = <<>>
    /\ files \in Snapshots
    /\ first = NoFirst
    /\ ret = Pending
    /\ call \in FindAffectedCalls
          \cup { Call("get_module_path", {}, {}, <<>>, path, <<>>) : path \in PathUniverse }
          \cup { Call("extract_imports", {}, {}, <<>>, path, <<>>) : path \in ImportFileUniverse }
          \cup { Call("find_test_files", {}, {}, <<>>, <<>>, dirs) : dirs \in TestDirsUniverse }
          \cup GetChangedFilesCalls
          \cup { Call("run", {}, {}, a[1], <<>>, a[2]) :
                   a \in Orders(find_test_files(NoTestDirs)) \X RunTestDirsUniverse }
    /\ repo \in CASE call.op = "get_changed_files" -> RepoUniverse
                  [] call.op = "run" -> RunRepoUniverse
                  [] OTHER -> {CleanRepo}

FindAffectedTests ==
    /\ call.op = "find_affected_tests"
    /\ ret.kind = "pending"
    /\ ret' = find_affected_tests(call.changed, call.tests, call.order)
    /\ UNCHANGED <<project_root, import_map, files, repo, call, first>>

GetModulePath ==
    /\ call.op = "get_module_path"
    /\ ret.kind = "pending"
    /\ ret' = Return(get_module_path(call.path))
    /\ UNCHANGED <<project_root, import_map, files, repo, call, first>>

ExtractImports ==
    /\ call.op = "extract_imports"
    /\ ret.kind = "pending"
    /\ ret' = extract_imports(call.path)
    /\ UNCHANGED <<project_root, import_map, files, repo, call, first>>

FindTestFiles ==
    /\ call.op = "find_test_files"
    /\ ret.kind = "pending"
    /\ ret' = Return(find_test_files(call.dirs))
    /\ UNCHANGED <<project_root, import_map, files, repo, call, first>>

GetChangedFiles ==
    /\ call.op = "get_changed_files"
    /\ ret.kind = "pending"
    /\ ret' = Return(get_changed_files(call.opts.include_untracked,
                                       call.opts.include_staged,
                                       call.opts.include_unstaged))
    /\ UNCHANGED <<project_root, import_map, files, repo, call, first>>

Run ==
    /\ call.op = "run"
    /\ ret.kind = "pending"
    /\ ret' = run(call.opts.include_untracked, call.opts.include_staged,
                  call.opts.include_unstaged, call.dirs, call.order)
    /\ UNCHANGED <<project_root, import_map, files, repo, call, first>>

\* the caller, holding the answer of a call, calls the mapper again
NextCall ==
    /\ ret.kind # "pending"
    /\ call.op = "find_affected_tests" \/ first.call.op # "none"
    /\ LET f == IF first.call.op = "none" THEN [call |-> call, ret |-> ret] ELSE first
       IN /\ first' = f
          /\ call' \in OtherCalls \cup {SameCall(f.call)}
    /\ ret' = Pending
    /\ UNCHANGED <<project_root, import_map, files, repo>>

Next ==
    \/ FindAffectedTests
    \/ GetModulePath
    \/ ExtractImports
    \/ FindTestFiles
    \/ GetChangedFiles
    \/ Run
    \/ NextCall

Spec == Init /\ [][Next]_vars

-----------------------------------------------------------------------------
(* Vocabulary of the properties.                                           *)

CalledFindAffectedTests == call.op = "find_affected_tests"
Returned == ret.kind = "return"

\* the test files of the call, discovered when none were passed
TestFilesOfCall == EffectiveTestFiles(call.tests)

\* the changed files that are themselves tests
ChangedTests == { f \in call.changed : is_test_file(f) }

\* Strategy A on its own: the changed files that are tests
StrategyA(changed) == { f \in changed : is_test_file(f) }

\* Strategy B on its own: the test files that are a candidate of a changed
\* file that is not a test
StrategyB(changed, tests) ==
    tests \cap UNION { LET candidates == get_test_candidates(f)
                       IN { candidates[i] : i \in DOMAIN candidates } :
                       f \in { g \in changed : ~is_test_file(g) } }

\* the statements of a file, those inside a def included
RECURSIVE StatementsOf(_)
StatementsOf(body) ==
    IF body = <<>> THEN {}
    ELSE {Head(body)} \cup StatementsOf(Head(body).body) \cup StatementsOf(Tail(body))

\* the names the statements of a file on disk import, by their first dotted
\* segment; none for a file that does not parse or is not there
DirectImportRoots(t) ==
    IF IsFile(t) /\ files[AbsPath(t)].kind = "source"
    THEN LET stmts == StatementsOf(files[AbsPath(t)].body)
         IN UNION { { SplitFirst(st.names[j]) : j \in DOMAIN st.names } :
                      st \in { x \in stmts : x.type = "Import" } }
            \cup { SplitFirst(st.module) :
                     st \in { x \in stmts : x.type = "ImportFrom" /\ x.module # <<>> } }
    ELSE {}

\* the root segments of the module identifiers of the resolvable changed files
ChangedRoots(changed) ==
    { SplitFirst(get_module_path(f)) :
        f \in { g \in changed : get_module_path(g) # NoneVal } }

\* Strategy C on its own: the test files importing a changed root
StrategyC(changed, tests) ==
    LET roots == ChangedRoots(changed)
    IN { t \in tests : DirectImportRoots(t) \cap roots # {} }

-----------------------------------------------------------------------------
\* C1: the set find_affected_tests returns is a subset of the test files of
\* the call united with the changed files that are themselves test files.
C1_ResultWithinTestFiles ==
    (CalledFindAffectedTests /\ Returned)
        => ret.value \subseteq (TestFilesOfCall \cup ChangedTests)

\* a call has returned tests although a changed source file had a candidate
\* that is no member of the test files, and a changed test outside them
C1_Witness ==
    /\ CalledFindAffectedTests /\ Returned
    /\ ret.value \cap TestFilesOfCall # {}
    /\ \E f \in ChangedTests : f \notin TestFilesOfCall /\ f \in ret.value
    /\ \E f \in call.changed :
          /\ ~is_test_file(f)
          /\ \E i \in DOMAIN get_test_candidates(f) :
                get_test_candidates(f)[i] \notin TestFilesOfCall

\* C2: what find_affected_tests returns is the union of the three strategies,
\* each computed on its own from the same changed files and test files.
C2_ResultIsUnionOfStrategies ==
    (CalledFindAffectedTests /\ Returned)
        => ret.value = StrategyA(call.changed)
                         \cup StrategyB(call.changed, TestFilesOfCall)
                         \cup StrategyC(call.changed, TestFilesOfCall)

\* a call in which each strategy gives a file the other two do not
C2_Witness ==
    /\ CalledFindAffectedTests /\ Returned
    /\ LET a == StrategyA(call.changed)
           b == StrategyB(call.changed, TestFilesOfCall)
           c == StrategyC(call.changed, TestFilesOfCall)
       IN /\ a \ (b \cup c) # {}
          /\ b \ (a \cup c) # {}
          /\ c \ (a \cup b) # {}
          /\ ret.value = a \cup b \cup c

-----------------------------------------------------------------------------
\* the content kind of a file, "missing" for one that is not on disk
FileKind(f) == IF IsFile(f) THEN files[AbsPath(f)].kind ELSE "missing"

\* a file whose analysis fails: a syntax error, undecodable bytes, no file
AnalysisFails(f) == FileKind(f) \in {"syntax_error", "undecodable", "missing"}

\* C3: a per-file analysis failure never leaves extract_imports or
\* find_affected_tests as an exception: extract_imports returns the empty set
\* for a file with a syntax error, with undecodable bytes or missing from the
\* disk, and find_affected_tests returns a set whatever its test files are.
C3_NeverRaises ==
    /\ (call.op = "extract_imports" /\ ret.kind # "pending" /\ AnalysisFails(call.path))
          => Returned /\ ret.value = {}
    /\ (CalledFindAffectedTests /\ ret.kind # "pending") => Returned

\* the test files of the call that hold a syntax error
Malformed == { t \in TestFilesOfCall : FileKind(t) = "syntax_error" }

\* C4: a test file with invalid syntax has an empty import set, and with
\* such a file among the test files (at any place of the iteration) the call
\* returns every other test file that the naming or the import strategy
\* selects from the test files without it. The other test files exist on disk.
C4_MalformedFileIsSkipped ==
    /\ (call.op = "extract_imports" /\ ret.kind # "pending"
            /\ FileKind(call.path) = "syntax_error")
          => Returned /\ ret.value = {}
    /\ (CalledFindAffectedTests /\ ret.kind # "pending" /\ Malformed # {}
            /\ \A t \in TestFilesOfCall \ Malformed : IsFile(t))
          => /\ Returned
             /\ StrategyB(call.changed, TestFilesOfCall \ Malformed) \subseteq ret.value
             /\ StrategyC(call.changed, TestFilesOfCall \ Malformed) \subseteq ret.value

\* the malformed file is visited first, and a test file visited after it is
\* returned for its imports alone
C4_Witness ==
    /\ CalledFindAffectedTests /\ Returned
    /\ Len(call.order) >= 2
    /\ call.order[1] \in Malformed
    /\ \E t \in StrategyC(call.changed, TestFilesOfCall \ Malformed) :
          /\ t \in ret.value
          /\ t \notin StrategyA(call.changed)
          /\ t \notin StrategyB(call.changed, TestFilesOfCall)

\* the malformed file is visited last, after a test file returned for its name
C4_WitnessLast ==
    /\ CalledFindAffectedTests /\ Returned
    /\ Len(call.order) >= 2
    /\ call.order[Len(call.order)] \in Malformed
    /\ StrategyB(call.changed, TestFilesOfCall \ Malformed) \cap ret.value # {}

-----------------------------------------------------------------------------
\* the parts of a file below the project root, both taken from the working
\* directory when relative; <<>> for a file that is not below the root
PartsBelowRoot(f) ==
    IF IsRelativeTo(AbsPath(f), AbsPath(project_root))
    THEN RelativeTo(AbsPath(f), AbsPath(project_root))
    ELSE <<>>

\* the directory of a changed file relative to the project root, a leading
\* src segment stripped
MirrorDir(f) ==
    LET parts == PartsBelowRoot(f)
        kept == IF parts # <<>> /\ parts[1] = N_src THEN Tail(parts) ELSE parts
    IN IF Len(kept) > 1 THEN SubSeq(kept, 1, Len(kept) - 1) ELSE <<>>

\* d/test_s.py, d/s_test.py, d/<mirror>/test_s.py and d/<mirror>/s_test.py for
\* the test directories d
NamingCandidates(f) ==
    LET s == PathStem(f)
    IN { project_root \o <<d>> \o m \o <<n>> :
           d \in {N_tests, N_test},
           m \in {<<>>, MirrorDir(f)},
           n \in {S_test_ \o s \o S_dot_py, s \o S__test_py} }

\* C5: every naming candidate of a changed file that is not a test is in the
\* result as soon as it is a member of the test files.
C5_EveryCandidateInTestFilesIsReturned ==
    (CalledFindAffectedTests /\ Returned)
        => \A f \in call.changed :
              ~is_test_file(f)
                 => (NamingCandidates(f) \cap TestFilesOfCall) \subseteq ret.value

\* C6: every changed file whose name makes it a test file is in the result,
\* as the path that was passed, whether it is among the test files or not.
C6_ChangedTestsAreReturned ==
    (CalledFindAffectedTests /\ Returned)
        => \A f \in call.changed :
              (StartsWith(PathName(f), S_test_) \/ EndsWith(PathName(f), S__test_py))
                 => f \in ret.value

\* a changed test is returned from a call whose set of test files is empty
C6_Witness ==
    /\ CalledFindAffectedTests /\ Returned
    /\ call.tests = {}
    /\ \E f \in call.changed : is_test_file(f) /\ f \in ret.value

\* C7: when the naming and the direct-edit strategies do not select it, a
\* test file of the call is in the result exactly when a root name it imports
\* is the root segment of the module identifier of a resolvable changed file;
\* what the imported modules import themselves plays no part.
C7_ImportStrategyIsOneHopRootMatch ==
    (CalledFindAffectedTests /\ Returned)
        => \A t \in TestFilesOfCall :
              /\ (DirectImportRoots(t) \cap ChangedRoots(call.changed) # {})
                    => t \in ret.value
              /\ ( /\ t \in ret.value
                   /\ t \notin StrategyA(call.changed)
                   /\ t \notin StrategyB(call.changed, TestFilesOfCall) )
                    => DirectImportRoots(t) \cap ChangedRoots(call.changed) # {}

\* the file the import of a root name leads to, at the top of the project
ModuleFile(root) == Cwd \o <<root \o S_dot_py>>

\* a test importing alpha alone is not returned when pkg changed, although
\* alpha.py imports pkg; and an unresolvable changed file is in the call
C7_Witness ==
    /\ CalledFindAffectedTests /\ Returned
    /\ \E t \in TestFilesOfCall :
          /\ t \notin ret.value
          /\ DirectImportRoots(t) # {}
          /\ \E r \in DirectImportRoots(t) :
                /\ IsFile(ModuleFile(r))
                /\ DirectImportRoots(ModuleFile(r)) \cap ChangedRoots(call.changed) # {}
    /\ \E t \in TestFilesOfCall :
          /\ t \in ret.value
          /\ t \notin StrategyA(call.changed) \cup StrategyB(call.changed, TestFilesOfCall)
    /\ \E f \in call.changed : get_module_path(f) = NoneVal

-----------------------------------------------------------------------------
CalledGetModulePath == call.op = "get_module_path"

\* the path is the project root or lies below it, part by part
IsDescendant(p) ==
    /\ IsAbsolute(p) = IsAbsolute(project_root)
    /\ Len(p) >= Len(project_root)
    /\ \A i \in 1..Len(project_root) : p[i] = project_root[i]

\* the segments of a descendant below the root, a first segment src dropped
ResolverSegments(p) ==
    LET below == [i \in 1..(Len(p) - Len(project_root)) |-> p[Len(project_root) + i]]
    IN IF below # <<>> /\ below[1] = N_src
       THEN [i \in 1..(Len(below) - 1) |-> below[i + 1]]
       ELSE below

\* the directory segments of a module identifier: all the segments but the
\* last, each followed by a dot
RECURSIVE DottedPrefix(_)
DottedPrefix(segments) ==
    IF Len(segments) <= 1 THEN <<>>
    ELSE Head(segments) \o <<Dot>> \o DottedPrefix(Tail(segments))

\* whether s is t with some of its characters left out
RECURSIVE IsSubsequence(_, _)
IsSubsequence(s, t) ==
    IF s = <<>> THEN TRUE
    ELSE IF t = <<>> THEN FALSE
    ELSE IF Head(s) = Head(t) THEN IsSubsequence(Tail(s), Tail(t))
    ELSE IsSubsequence(s, Tail(t))

\* C8: get_module_path returns None for a path that is no descendant of the
\* project root and for one that leaves no segment; otherwise it drops a first
\* segment src and no other, and joins the segments left with dots, the last
\* one without its extension; <root>/src/mypackage/module.py and
\* <root>/mypackage/module.py both give mypackage.module.
C8_ResolverAlgorithm ==
    (CalledGetModulePath /\ Returned)
        => LET p == call.path
               segs == ResolverSegments(p)
               dirs == DottedPrefix(segs)
           IN /\ ~IsDescendant(p) => ret.value = NoneVal
              /\ (IsDescendant(p) /\ segs = <<>>) => ret.value = NoneVal
              /\ (IsDescendant(p) /\ segs # <<>>)
                    => /\ ret.value # NoneVal
                       /\ Len(ret.value) >= Len(dirs)
                       /\ SubSeq(ret.value, 1, Len(dirs)) = dirs
                       /\ IsSubsequence(
                             SubSeq(ret.value, Len(dirs) + 1, Len(ret.value)),
                             segs[Len(segs)])
              /\ p \in { project_root \o <<N_src, N_mypackage, N_module_py>>,
                         project_root \o <<N_mypackage, N_module_py>> }
                    => ret.value = N_mypackage_module

\* a path with a src segment below its first segment has been resolved and
\* the identifier keeps it
C8_Witness ==
    /\ CalledGetModulePath /\ Returned
    /\ IsDescendant(call.path)
    /\ Len(ResolverSegments(call.path)) = 3
    /\ ResolverSegments(call.path)[2] = N_src
    /\ ret.value = N_pkg \o <<Dot>> \o N_src \o <<Dot>> \o N_foo

\* <root>/src/mypackage/module.py has been resolved
C8_WitnessSrcLayout ==
    /\ CalledGetModulePath /\ Returned
    /\ call.path = project_root \o <<N_src, N_mypackage, N_module_py>>
    /\ ret.value = N_mypackage_module

\* the identifier the resolver gives a path once the path and the project
\* root are both taken from the working directory
NormalizedModulePath(p) ==
    LET parts == PartsBelowRoot(p)
        kept == IF parts # <<>> /\ parts[1] = N_src THEN Tail(parts) ELSE parts
    IN IF kept = <<>> THEN NoneVal
       ELSE DottedPrefix(kept) \o PathStem(kept)

\* C9: get_module_path gives a file under the project root the same module
\* identifier whether the path is relative to the project root or absolute,
\* and whether the project root is relative or absolute.
C9_RelativeAndAbsoluteAgree ==
    (CalledGetModulePath /\ Returned
        /\ IsRelativeTo(AbsPath(call.path), AbsPath(project_root))
        /\ PathSuffix(call.path) = S_dot_py)
        => ret.value = NormalizedModulePath(call.path)

\* a path is plain when no segment holds a dot but for the .py that ends it
PlainPyPath(p) ==
    /\ p # <<>>
    /\ \A i \in 1..(Len(p) - 1) : \A j \in DOMAIN p[i] : p[i][j] # Dot
    /\ EndsWith(p[Len(p)], S_dot_py)
    /\ \A j \in 1..(Len(p[Len(p)]) - Len(S_dot_py)) : p[Len(p)][j] # Dot

\* whether the first segment of a descendant below the root is src
StartsBelowRootWithSrc(p) ==
    Len(p) > Len(project_root) /\ p[Len(project_root) + 1] = N_src

\* the paths that resolve to the identifier returned, the path of the call
\* left out
OthersWithSameModule ==
    { q \in PathUniverse \ {call.path} :
        IsDescendant(q) /\ get_module_path(q) = ret.value }

\* C10 as stated: two different paths under the project root that both resolve
\* never resolve to the same module identifier.
C10_Injective ==
    (CalledGetModulePath /\ Returned /\ ret.value # NoneVal)
        => OthersWithSameModule = {}

\* C10 amended: two different plain paths under the project root that both
\* resolve, and that both start with src below the root or both do not, never
\* resolve to the same module identifier.
C10_InjectiveOnPlainPaths ==
    (CalledGetModulePath /\ Returned /\ ret.value # NoneVal
        /\ PlainPyPath(call.path))
        => \A q \in OthersWithSameModule :
              PlainPyPath(q)
                 => StartsBelowRootWithSrc(q) # StartsBelowRootWithSrc(call.path)

\* a plain path has been resolved while another plain path with the same
\* first-segment status and the same file name resolves too, to another
\* identifier
C10_Witness ==
    /\ CalledGetModulePath /\ Returned /\ ret.value # NoneVal
    /\ PlainPyPath(call.path)
    /\ \E q \in PathUniverse \ {call.path} :
          /\ IsDescendant(q) /\ PlainPyPath(q)
          /\ StartsBelowRootWithSrc(q) = StartsBelowRootWithSrc(call.path)
          /\ PathName(q) = PathName(call.path)
          /\ get_module_path(q) \notin {NoneVal, ret.value}

-----------------------------------------------------------------------------
\* C11: the last component of the identifier get_module_path returns is the
\* file name without its final extension, every other character of the name
\* kept, and the segments before it are the directory segments unaltered.
C11_OnlyFinalExtensionStripped ==
    (CalledGetModulePath /\ Returned /\ ret.value # NoneVal)
        => LET segs == ResolverSegments(call.path)
           IN ret.value = DottedPrefix(segs) \o PathStem(segs)

-----------------------------------------------------------------------------
\* the answers of two calls of find_affected_tests with the same arguments
\* on the same mapper are the same
C12_SameAnswer ==
    (/\ CalledFindAffectedTests
     /\ ret.kind # "pending"
     /\ first.call.op # "none"
     /\ call.changed = first.call.changed
     /\ call.tests = first.call.tests)
        => ret.kind = first.ret.kind /\ ret.value = first.ret.value

\* a method that runs leaves its arguments, the mapper's project_root and
\* import_map, and the files on disk as they were
C12_CallLeavesStateAlone ==
    (ret.kind = "pending")
        => /\ call' = call
           /\ project_root' = project_root
           /\ import_map' = import_map
           /\ files' = files

\* C12: two calls of find_affected_tests on the same mapper with the same
\* arguments and the same files on disk give the same answer, whatever calls
\* of find_test_files, extract_imports and get_module_path come between and
\* whichever of the two comes first; no call modifies its arguments or the
\* mapper's project_root and import_map.
C12_IdempotentAndIndependent ==
    []C12_SameAnswer /\ [][C12_CallLeavesStateAlone]_vars

\* the second call has answered, after another iteration order, with a set
\* that strategy 3 contributed two files to
C12_Witness ==
    /\ CalledFindAffectedTests
    /\ first.call.op # "none"
    /\ Returned
    /\ call.order # first.call.order
    /\ Cardinality(StrategyC(call.changed, TestFilesOfCall)
                      \ (StrategyA(call.changed)
                            \cup StrategyB(call.changed, TestFilesOfCall))) >= 2
    /\ ret.value = first.ret.value

-----------------------------------------------------------------------------
CalledFindTestFiles == call.op = "find_test_files"

\* the directory names a call of find_test_files lists
ListedDirs(dirs) ==
    IF dirs = NoTestDirs THEN {N_tests, N_test}
    ELSE { dirs[i] : i \in DOMAIN dirs }

\* the files on disk at any depth beneath the listed directories that
\* satisfy a predicate, each named as the project root joined with its path
\* below the root
FilesBeneath(dirs, Accepts(_)) ==
    { JoinPath(project_root, SubSeq(f, Len(Cwd) + 1, Len(f))) :
        f \in { g \in DOMAIN files :
                  /\ Len(g) > Len(Cwd) + 1
                  /\ SubSeq(g, 1, Len(Cwd)) = Cwd
                  /\ g[Len(Cwd) + 1] \in ListedDirs(dirs)
                  /\ Accepts(g) } }

IsPythonTestFile(f) == is_test_file(f) /\ PathSuffix(f) = S_dot_py

\* C13 as stated: find_test_files returns exactly the files beneath the
\* listed directories that _is_test_file accepts.
C13_DiscoversWhatIsTestFileAccepts ==
    (CalledFindTestFiles /\ ret.kind # "pending")
        => Returned /\ ret.value = FilesBeneath(call.dirs, is_test_file)

\* C13: find_test_files returns exactly the files with the extension .py, at
\* any depth beneath the listed directories that exist, that _is_test_file
\* accepts; a listed directory that does not exist contributes nothing and
\* raises nothing, and a file found twice is in the set once.
C13_DiscoversPythonTestFiles ==
    (CalledFindTestFiles /\ ret.kind # "pending")
        => Returned /\ ret.value = FilesBeneath(call.dirs, IsPythonTestFile)

\* a call listing a directory that does not exist and two that do, returning
\* a file two levels down and a file both patterns match
C13_Witness ==
    /\ CalledFindTestFiles /\ Returned
    /\ \E i \in DOMAIN call.dirs : ~PathExists(JoinPath(project_root, <<call.dirs[i]>>))
    /\ JoinPath(project_root, Rel(F_tests_pkg_test_foo)) \in ret.value
    /\ JoinPath(project_root, Rel(F_spec_test_foo_test)) \in ret.value
    /\ MatchesTestPrefixGlob(N_test_foo_test_py)
    /\ MatchesTestSuffixGlob(N_test_foo_test_py)

-----------------------------------------------------------------------------
CalledExtractImports == call.op = "extract_imports"

\* the import statements of a file on disk that name a module absolutely:
\* 'import X', 'import X as Y' and 'from X import ...' without leading dots
AbsoluteImportedModules(f) ==
    LET stmts == StatementsOf(files[AbsPath(f)].body)
    IN UNION { { st.names[j] : j \in DOMAIN st.names } :
                 st \in { x \in stmts : x.type = "Import" } }
       \cup { st.module :
                st \in { x \in stmts : /\ x.type = "ImportFrom"
                                       /\ x.level = 0
                                       /\ x.module # <<>> } }

\* C14: for a file that parses, extract_imports returns exactly the first
\* dotted segments of the modules its 'import X', 'import X as Y' and
\* 'from X import ...' statements name; a relative import contributes no name.
C14_RootsOfAbsoluteImports ==
    (CalledExtractImports /\ ret.kind # "pending" /\ FileKind(call.path) = "source")
        => Returned /\ ret.value = { SplitFirst(m) : m \in AbsoluteImportedModules(call.path) }

-----------------------------------------------------------------------------
\* the first dotted segments of the modules a set of statements names
RootsNamedBy(stmts) ==
    UNION { { SplitFirst(st.names[j]) : j \in DOMAIN st.names } :
              st \in { x \in stmts : x.type = "Import" } }
    \cup { SplitFirst(st.module) :
             st \in { x \in stmts : x.type = "ImportFrom" /\ x.module # <<>> } }

\* the statements at the top level of a file on disk that parses
TopLevelStatements(f) ==
    IF FileKind(f) = "source"
    THEN { files[AbsPath(f)].body[i] : i \in DOMAIN files[AbsPath(f)].body }
    ELSE {}

\* the statements inside the function bodies of a file on disk that parses
NestedStatements(f) ==
    IF FileKind(f) = "source"
    THEN StatementsOf(ChildNodes(files[AbsPath(f)].body))
    ELSE {}

\* the test files of the call that a changed root reaches through an import
\* inside a function body alone
SelectedByNestedImportAlone ==
    LET roots == ChangedRoots(call.changed)
    IN { t \in TestFilesOfCall :
           /\ RootsNamedBy(NestedStatements(t)) \cap roots # {}
           /\ RootsNamedBy(TopLevelStatements(t)) \cap roots = {}
           /\ t \notin StrategyA(call.changed)
           /\ t \notin StrategyB(call.changed, TestFilesOfCall) }

\* C15 as stated: extract_imports returns names of top-level import
\* statements only, and an import inside a function body alone never makes
\* find_affected_tests select the test file.
C15_TopLevelImportsOnly ==
    /\ (CalledExtractImports /\ Returned)
          => ret.value \subseteq RootsNamedBy(TopLevelStatements(call.path))
    /\ (CalledFindAffectedTests /\ Returned)
          => ret.value \cap SelectedByNestedImportAlone = {}

\* C15: extract_imports captures the static import statements of the whole
\* file: an import statement inside a function body contributes its name as
\* a top-level one does, and such an import alone makes Strategy C select the
\* test file.
C15_NestedImportsCaptured ==
    /\ (CalledExtractImports /\ Returned)
          => RootsNamedBy(NestedStatements(call.path)) \subseteq ret.value
    /\ (CalledFindAffectedTests /\ Returned)
          => SelectedByNestedImportAlone \subseteq ret.value

\* a call returned a test file whose only link to the changed files is an
\* import inside a function body
C15_Witness ==
    /\ CalledFindAffectedTests /\ Returned
    /\ SelectedByNestedImportAlone # {}
    /\ SelectedByNestedImportAlone \subseteq ret.value

\* extract_imports answered for a file with an import inside a function body
C15_WitnessExtract ==
    /\ CalledExtractImports /\ Returned
    /\ RootsNamedBy(NestedStatements(call.path))
          \ RootsNamedBy(TopLevelStatements(call.path)) # {}

-----------------------------------------------------------------------------
CalledGetChangedFiles == call.op = "get_changed_files"

\* the files with staged changes: those of the diff of the index against
\* base, every entry of the index in a repository without a commit
StagedFiles ==
    IF repo.head
    THEN { d.a_path : d \in repo.staged } \cup { d.b_path : d \in repo.staged }
    ELSE repo.index

\* the files modified in the working tree
UnstagedFiles ==
    { d.a_path : d \in repo.unstaged } \cup { d.b_path : d \in repo.unstaged }

\* the staged, unstaged and untracked files whose include flag is true
IncludedChanges ==
    (IF call.opts.include_staged THEN StagedFiles ELSE {})
    \cup (IF call.opts.include_unstaged THEN UnstagedFiles ELSE {})
    \cup (IF call.opts.include_untracked THEN repo.untracked ELSE {})

\* C16: get_changed_files returns only paths with the suffix '.py', drawn
\* from the staged, unstaged and untracked files whose include flag is true;
\* an untracked Python file is returned when include_untracked is true, an
\* untracked file that is neither staged nor modified is never returned when
\* include_untracked is false, and no other file than a Python file is.
C16_ChangedPythonFiles ==
    (CalledGetChangedFiles /\ ret.kind # "pending")
        => /\ Returned
           /\ \A f \in ret.value : PathSuffix(f) = S_dot_py /\ f \in IncludedChanges
           /\ \A f \in repo.untracked :
                 /\ (call.opts.include_untracked /\ PathSuffix(f) = S_dot_py)
                       => f \in ret.value
                 /\ (~call.opts.include_untracked
                       /\ f \notin StagedFiles \cup UnstagedFiles)
                       => f \notin ret.value
           /\ \A f \in StagedFiles \cup UnstagedFiles \cup repo.untracked :
                 PathSuffix(f) # S_dot_py => f \notin ret.value

\* staged, unstaged and untracked changes, Python files and others, with
\* the staged changes left out: the untracked Python file is returned, the
\* staged one and the stub file are not
C16_Witness ==
    /\ CalledGetChangedFiles /\ Returned
    /\ repo.head
    /\ call.opts = [DefaultOpts EXCEPT !.include_staged = FALSE]
    /\ Rel(F_tests_test_math) \in repo.untracked \cap ret.value
    /\ <<N_pkg, N_foo_pyi>> \in repo.untracked \ ret.value
    /\ Rel(F_src_pkg_foo) \in StagedFiles \ ret.value
    /\ UnstagedFiles \cap ret.value # {}

-----------------------------------------------------------------------------
CalledRun == call.op = "run"

\* the changed files of the run
ChangedOfRun ==
    get_changed_files(call.opts.include_untracked, call.opts.include_staged,
                      call.opts.include_unstaged)

\* the test files beneath the directories the run was given
TestDirsUniverseOfRun == find_test_files(call.dirs)

\* C17: the test files a run selects from are those find_test_files
\* discovers in the directories of its test_dirs argument: the run selects
\* the changed tests and the test files of those directories that the naming
\* or the import strategy reaches, so that a test file lying only in a
\* directory named by test_dirs is selected when it imports a changed module.
C17_TestDirsAreSearched ==
    (CalledRun /\ Returned /\ ChangedOfRun # {})
        => ret.value = StrategyA(ChangedOfRun)
                         \cup StrategyB(ChangedOfRun, TestDirsUniverseOfRun)
                         \cup StrategyC(ChangedOfRun, TestDirsUniverseOfRun)

====
